---- MODULE Spec2Model ----
(***************************************************************************)
(* The node-management wrapper (wrapper.py): the poll loop that fetches    *)
(* the two signed command feeds, verifies them, guards against replays and *)
(* dispatches start / stop / delay / update entries to the wrapped binary  *)
(* and to the files of the install-path registry.                          *)
(***************************************************************************)
EXTENDS Integers, Sequences, FiniteSets, TLC

\* ------------------------------------------------------------------ bounds
\* Largest batch timestamp (and latest start-up time) explored.
MaxTs == 2
\* Largest number of entries in one batch.
MaxCmds == 2
\* Largest number of worker processes spawned in one run; a spawn beyond it
\* fails the way a spawn fails when the OS refuses it.
MaxSpawn == 2
\* Longest line 1 (in byte tokens) handed to verify_cmd on its own.
MaxLine == 3
\* Largest log_index explored: backup_log stops there.
MaxRot == 2

\* --------------------------------------------------------------- constants
\* process = None
None == 0
\* enumerate(remotes_paths): 0 is the version feed, 1 the command feed
Feeds == {0, 1}
\* duration of the delay entries explored, in ms
DelayMs == 1000

config_file == "/opt/xxnetwork/config/node.yaml"

\* The valid "install" paths, with their local paths for this machine.
valid_paths ==
  [binary  |-> "/opt/xxnetwork/bin/node",
   wrapper |-> "/opt/xxnetwork/wrapper.py",
   config  |-> config_file,
   cert    |-> "/opt/xxnetwork/config/creds/network_management.crt"]

binary_path == valid_paths["binary"]
rsa_certificate_path == valid_paths["cert"]
Paths == {valid_paths[k] : k \in DOMAIN valid_paths}

\* ------------------------------------------------------------------- files
\* Permission bits of a file; only the owner-execute bit is ever inspected.
S_IEXEC == {"ux"}
InstalledMode == {"ur", "uw", "ux", "gr", "gx", "or", "ox"}
DownloadMode == {"ur", "uw", "gr", "or"}

NoFile == [content |-> "nofile", mode |-> {}]
File(c, m) == [content |-> c, mode |-> m]
isfile(f) == f # NoFile

\* Artifact contents: "v0" is what is installed at start-up, "v1" the
\* artifact a batch announces, "v2" any other bytes (a truncated or
\* substituted transfer).
Contents == {"v1", "v2"}

\* hashlib.sha256(bytes).hexdigest(): lower-case hex, injective on Contents.
sha256_hexdigest(c) ==
  CASE c = "v0" -> "c0ffee"
    [] c = "v1" -> "a1b2c3"
    [] c = "v2" -> "d4e5f6"

\* The same digits with the letters in upper case, as a feed may give them.
upper_hex(h) ==
  CASE h = "c0ffee" -> "C0FFEE"
    [] h = "a1b2c3" -> "A1B2C3"
    [] h = "d4e5f6" -> "D4E5F6"
    [] OTHER -> h

\* The hex digits of h whatever the case of its letters.
lower_hex(h) ==
  CASE h = "C0FFEE" -> "c0ffee"
    [] h = "A1B2C3" -> "a1b2c3"
    [] h = "D4E5F6" -> "d4e5f6"
    [] OTHER -> h

\* ------------------------------------------------------------- signatures
\* The signing keys: K0 is the key of the certificate installed at start-up,
\* K1 the key of the certificate that artifact "v1" carries (untrusted until
\* such a certificate is installed).
Keys == {"K0", "K1"}
NoKey == "nokey"

\* crypto.load_certificate: the public key of a PEM certificate, NoKey when
\* the bytes are no certificate (load_certificate raises).
load_certificate(content) ==
  CASE content = "v0" -> "K0"
    [] content = "v1" -> "K1"
    [] OTHER -> NoKey

\* A signature made with key k over the byte sequence data.
Sign(k, data) == [key |-> k, over |-> data]
NoSignature == [key |-> NoKey, over |-> <<>>]

\* crypto.verify(key, signature, data, 'sha256'): raises unless the
\* signature was made with that key over exactly these bytes.
crypto_verify(key, signature, data) ==
  /\ signature.key = key
  /\ signature.over = data

\* ---------------------------------------------------------------- identity
\* Python's None (or an empty string) for an id.
NoId == ""
\* The ids an identity file may name.
FileIds == {"node-a", "node-b"}
\* What the identity file may be: absent, bytes that do not decode to an
\* object with an id, or {"id": <id>}.
IdFiles == {"absent", "malformed"} \cup FileIds

\* json.loads(idfile.read().strip()).get("id", None) behind
\* os.path.exists(id_path): NoId when the file is absent or the read raises.
new_node_id(f) == IF f \in FileIds THEN f ELSE NoId

\* str(uuid.uuid1()): the n-th identifier generated by this process.
uuid1(n) == IF n = 1 THEN "uuid-1" ELSE "uuid-2"

\* ---------------------------------------------------------------- payloads
\* A decoded payload (the JSON object of line 1).
Doc(t, cs) == [timestamp |-> t, commands |-> cs]
NoDoc == Doc(0, <<>>)

\* Line 1 is a sequence of byte tokens: a whitespace byte, a byte that is
\* no JSON, or the text of one JSON object.
WS == [b |-> "ws", doc |-> NoDoc]
Junk == [b |-> "junk", doc |-> NoDoc]
Json(d) == [b |-> "json", doc |-> d]

RECURSIVE lstrip(_)
lstrip(s) ==
  IF s # <<>> /\ Head(s) = WS THEN lstrip(Tail(s)) ELSE s

RECURSIVE rstrip(_)
rstrip(s) ==
  IF s # <<>> /\ s[Len(s)] = WS THEN rstrip(SubSeq(s, 1, Len(s) - 1)) ELSE s

\* str.strip()
strip(s) == rstrip(lstrip(s))

\* json.loads succeeds on the text of exactly one JSON value, surrounded by
\* optional whitespace.
json_parses(s) == Len(strip(s)) = 1 /\ strip(s)[1].b = "json"
json_loads(s) == strip(s)[1].doc

\* An envelope file: line 1, and the signature that line 2 carries
\* (NoSignature when line 2 does not decode).
Envelope(l1, sig) == [line1 |-> l1, signature |-> sig]

\* verify_cmd(inbuf, public_key_path), given the bytes of the certificate:
\* the decoded payload (parsed = FALSE for Python's None) and whether the
\* signature verified.
verify_cmd(inbuf, cert) ==
  LET key == load_certificate(cert)
      command == strip(inbuf.line1)
      parsed == key # NoKey /\ json_parses(command)
  IN  [parsed |-> parsed,
       json |-> IF parsed THEN json_loads(command) ELSE NoDoc,
       ok |-> /\ parsed
              /\ inbuf.signature # NoSignature
              /\ crypto_verify(key, inbuf.signature, command)]

NoVerdict == [done |-> FALSE, parsed |-> FALSE, json |-> NoDoc, ok |-> FALSE]

\* ----------------------------------------------------------------- entries
\* An entry; nodes is what command.get("nodes", list()) gives: the empty
\* set when the key is absent or its list is empty.
Entry(c, inf) == [command |-> c, info |-> inf, nodes |-> {}]
Targeted(e, ns) == [e EXCEPT !.nodes = ns]
NoInfo == [time |-> 0, install_path |-> "", path |-> "", sha256sum |-> ""]
StartCmd == Entry("start", NoInfo)
StopCmd == Entry("stop", NoInfo)
DelayCmd == Entry("delay", [NoInfo EXCEPT !.time = DelayMs])
UpdateCmd(k, h) ==
  Entry("update", [NoInfo EXCEPT !.install_path = k, !.path = "v1/artifact",
                                 !.sha256sum = h])

\* The entries of the supervisor vocabulary and of the update vocabulary.
SupervisorCmds == {StartCmd, StopCmd, DelayCmd}
InstallKeys == {"binary", "wrapper", "config", "cert", "../etc/passwd"}
UpdateCmds == {UpdateCmd(k, sha256_hexdigest("v1")) : k \in InstallKeys}

SeqsUpTo(S, n) == UNION {[1..m -> S] : m \in 0..n}

\* The envelopes a feed may serve, over a vocabulary of entries: a payload
\* with any timestamp and any short list of entries, or bytes that are no
\* JSON; signed over line 1 by the trusted key or by another one.
Lines(Cmds) ==
  {<<Junk>>} \cup
  {<<Json(Doc(t, cs))>> : t \in 0..MaxTs, cs \in SeqsUpTo(Cmds, MaxCmds)}
Envelopes(Cmds) == {Envelope(l, Sign(k, l)) : l \in Lines(Cmds), k \in Keys}

\* ------------------------------------------------------------------- state
VARIABLES
  pc,             \* where the poll loop is: "sleep", "feed", "dispatch",
                  \* "wait" (inside p.wait() of a stop), "exited"
  feed,           \* i, the index of the feed being processed
  timestamps,     \* timestamps[i]: the most recent command timestamp per feed
  ok,             \* the ok that verify_cmd last returned
  timestamp,      \* the timestamp of the payload last decoded
  commands,       \* the entries of the batch still to be iterated over
  process,        \* the handle of the wrapped process: None or a pid
  procs,          \* every worker spawned so far, by pid: status and arguments
  logfile,        \* size in bytes of the file at log_path, Absent if none
  installed,      \* the file at each registry path
  tmpfiles,       \* the file at <registry path>.tmp
  errfile,        \* whether the recovered-error file is present
  disableupdates, \* args["disableupdates"]
  signed,         \* verify_cmd on its own: the line 1 that the signer signed
  envelope,       \* verify_cmd on its own: the envelope as received
  verdict,        \* verify_cmd on its own: what verify_cmd returned
  started,        \* time.time() when the module-level code ran
  idfile,         \* what the file at args["idpath"] holds
  read_node_id,   \* the cached node id read from the file, NoId if none
  generated_uuid, \* the cached generated id, NoId if none
  uuids,          \* how many ids uuid.uuid1() has produced
  node_id,        \* node_id of the poll loop
  resolved,       \* the first id get_node_id returned from the file
  resolving,      \* get_node_id step by step: per thread, where its call
                  \* is, its new_node_id and what its last call returned
  fetched,        \* the last poll of a feed: whether download() succeeded,
                  \* whether verify_cmd was called, whether line 1 decoded
                  \* and the timestamp it declared
  saved,          \* the save_cmd call of the last poll of a feed, if any
  bpc,            \* where backup_log is: "sleep", "getsize", "truncate"
  log_prefix,     \* log_prefix of backup_log
  log_index,      \* log_index of backup_log
  log_size,       \* log_size of backup_log
  attempted,      \* the last upload() call of backup_log: its key and
                  \* whether it put the object
  uploaded        \* the last object put to the log bucket: key and size

loop == <<pc, feed, ok, timestamp, commands>>
supervisor == <<process, procs, logfile>>
fs == <<installed, tmpfiles>>
verifier == <<signed, envelope, verdict>>
identity == <<idfile, read_node_id, generated_uuid, uuids, node_id, resolved>>
audit == <<fetched, saved>>
backup == <<bpc, log_prefix, log_index, log_size, attempted, uploaded>>
params == <<errfile, disableupdates, verifier, started, resolving, backup>>
env == <<params, identity, audit>>
vars == <<pc, feed, timestamps, ok, timestamp, commands, process, procs,
          logfile, installed, tmpfiles, errfile, disableupdates, signed,
          envelope, verdict, started, idfile, read_node_id, generated_uuid,
          uuids, node_id, resolving, resolved, fetched, saved, bpc,
          log_prefix, log_index, log_size, attempted, uploaded>>

Pids == 1..Len(procs)
Alive(p) == procs[p].status # "exited"
LiveWorkers == {p \in Pids : Alive(p)}

\* p.poll() is not None
Exited(p) == procs[p].status = "exited"

\* The state the module-level code leaves behind, with a start-up time
\* `now`, the config file present or not, updates enabled or not.
InitWith(now, cfg, dis, err) ==
  /\ pc = "sleep"
  /\ feed = 0
  /\ timestamps = [f \in Feeds |-> IF f = 0 THEN 0 ELSE now]
  /\ ok = FALSE
  /\ timestamp = 0
  /\ commands = <<>>
  /\ process = None
  /\ procs = <<>>
  /\ installed = [p \in Paths |->
                    IF p = config_file /\ ~cfg THEN NoFile
                    ELSE File("v0", InstalledMode)]
  /\ tmpfiles = [p \in Paths |-> NoFile]
  /\ errfile \in err
  /\ disableupdates \in dis
  /\ started = now

\* node_id = get_node_id(args["idpath"]), run before the thread split, with
\* the identity file being one of `files`; no call is in progress after it.
Threads == {"poll", "backup"}
NoCall == [pc |-> "idle", new_node_id |-> NoId, result |-> NoId]
IdentityResolved(files) ==
  /\ idfile \in files
  /\ read_node_id = new_node_id(idfile)
  /\ generated_uuid = IF read_node_id = NoId THEN uuid1(1) ELSE NoId
  /\ uuids = IF read_node_id = NoId THEN 1 ELSE 0
  /\ node_id = IF read_node_id # NoId THEN read_node_id ELSE generated_uuid
  /\ resolving = [t \in Threads |-> NoCall]
  /\ resolved = read_node_id

\* No feed has been polled, no save_cmd call has been made.
NoPoll == [download |-> FALSE, handed |-> FALSE, parsed |-> FALSE,
           declared |-> 0]
NoRecord == [called |-> FALSE, valid |-> FALSE, clock |-> FALSE, cmd_time |-> 0]
AuditEmpty ==
  /\ fetched = NoPoll
  /\ saved = NoRecord

\* log_index = 0 and the thread of backup_log in its first sleep; the log
\* file, kept across runs of the wrapper, has one of `sizes`.
Absent == -1
BackupIdle(sizes) ==
  /\ logfile \in sizes
  /\ bpc = "sleep"
  /\ log_prefix = NoId
  /\ log_index = 0
  /\ log_size = 0
  /\ attempted = [prefix |-> NoId, index |-> 0, put |-> FALSE]
  /\ uploaded = [prefix |-> NoId, index |-> 0, size |-> 0]

\* No identity file, no log file, nothing saved yet.
Quiet ==
  /\ IdentityResolved({"absent"})
  /\ AuditEmpty
  /\ BackupIdle({Absent})

\* verify_cmd is not being looked at on its own.
VerifierIdle ==
  /\ signed = <<>>
  /\ envelope = Envelope(<<>>, NoSignature)
  /\ verdict = NoVerdict

\* ------------------------------------------------------------- supervisor
\* The arguments of the worker: --config <path> only if the file exists.
WorkerArgs ==
  IF isfile(installed[config_file]) THEN <<"--config", config_file>> ELSE <<>>

\* Whether subprocess.Popen can run the binary at all.
CanSpawn ==
  /\ Len(procs) < MaxSpawn
  /\ isfile(installed[binary_path])
  /\ "ux" \in installed[binary_path].mode

\* start_binary returned a process.
Spawned(ps, args) ==
  /\ procs' = Append(ps, [status |-> "running", args |-> args])
  /\ process' = Len(ps) + 1
  /\ logfile' = IF logfile = Absent THEN 0 ELSE logfile

\* p.terminate(): SIGTERM to a process that has not exited.
Terminated(p) ==
  IF Alive(p) THEN [procs EXCEPT ![p].status = "signalled"] ELSE procs

NeedsStart_Always == TRUE

\* process is None or process.poll() is not None
NeedsStart == process = None \/ Exited(process)

Abandon_Exit ==
  /\ pc' = "exited"
  /\ UNCHANGED <<feed, commands>>

\* The for loop over the feeds moves on: to the command feed after the
\* version feed, to the next sleep after the command feed.
NextFeed ==
  /\ pc' = IF feed = 0 THEN "feed" ELSE "sleep"
  /\ feed' = IF feed = 0 THEN 1 ELSE feed
  /\ commands' = <<>>

\* except Exception: the rest of this feed's iteration is skipped.
Abandon == NextFeed

\* The top of the loop when the recovered-error file is present: the
\* binary is restarted.
RestartOnError ==
  /\ pc = "sleep"
  /\ errfile
  /\ LET ps == IF process # None /\ ~Exited(process)
               THEN Terminated(process) ELSE procs
     IN  \E spawn_ok \in BOOLEAN :
           IF spawn_ok /\ CanSpawn
           THEN Spawned(ps, WorkerArgs)
           ELSE procs' = ps /\ UNCHANGED <<process, logfile>>
  /\ pc' = "feed"
  /\ feed' = 0
  /\ UNCHANGED <<timestamps, ok, timestamp, commands, fs, env>>

\* The top of the loop when there is no recovered-error file.
NoRestart ==
  /\ pc = "sleep"
  /\ ~errfile
  /\ pc' = "feed"
  /\ feed' = 0
  /\ UNCHANGED <<timestamps, ok, timestamp, commands, supervisor, fs, env>>

\* ------------------------------------------------------------ feed polling
Rejected_Unparsed(r) == ~r.parsed

\* signed_commands is None, or not ok
Rejected(r) == ~r.parsed \/ ~r.ok

Outdated_Strict(t, last) == t < last

\* timestamp <= timestamps[i]: the batch occurred before the last applied one
Outdated(t, last) == t <= last

\* get_node_id(id_path) run from its first line to its return with no other
\* call in progress: the id returned and the two caches after the call.
get_node_id ==
  LET from_file == IF read_node_id # NoId THEN read_node_id
                   ELSE new_node_id(idfile)
      generate == from_file = NoId /\ generated_uuid = NoId
      generated == IF generate THEN uuid1(uuids + 1) ELSE generated_uuid
  IN  [id |-> IF from_file # NoId THEN from_file ELSE generated,
       read_node_id |-> from_file,
       generated_uuid |-> generated,
       uuids |-> IF generate THEN uuids + 1 ELSE uuids]

\* The caches after such a call.
Cached(r) ==
  /\ read_node_id' = r.read_node_id
  /\ generated_uuid' = r.generated_uuid
  /\ uuids' = r.uuids
  /\ resolved' = IF resolved = NoId THEN r.read_node_id ELSE resolved
  /\ UNCHANGED idfile

\* node_id = get_node_id(args["idpath"])
ResolveNodeId ==
  /\ node_id' = get_node_id.id
  /\ Cached(get_node_id)

\* save_cmd(local_path, cmd_log_dir, valid, cmd_time), the log directory
\* being writable: the copy is tagged INVALID_ unless valid, and named after
\* int(cmd_time); clock says that cmd_time was time.time().
SaveCmd(valid, clock, cmd_time) ==
  [called |-> TRUE, valid |-> valid, clock |-> clock, cmd_time |-> cmd_time]

\* What download() may leave at local_path: the envelope just fetched
\* ("fresh"); on failure the copy of an earlier download ("stale"), or no
\* file at all ("none").
DownloadOutcomes == {"fresh", "stale", "none"}

\* One iteration of the loop over the feeds, up to the loop over the
\* entries: download, open(local_path), verify_cmd, save_cmd, the timestamp
\* check and get_node_id.  Without a file at local_path open raises; a stale
\* copy holds bytes this process does not control.  Cmds is the vocabulary
\* of the batches served, Downloads the outcomes of download() that occur;
\* audited says whether what the poll found and what it wrote to cmd_log_dir
\* (which the loop never reads back) is kept track of.
Poll(Cmds, Downloads, audited) ==
  /\ pc = "feed"
  /\ \E dl \in Downloads :
       LET cert == installed[rsa_certificate_path]
           have == dl # "none"
           found(r) == [download |-> dl = "fresh", handed |-> have,
                        parsed |-> r.parsed, declared |-> r.json.timestamp]
           Audit(f, rec) == IF audited THEN fetched' = f /\ saved' = rec
                            ELSE UNCHANGED audit
       IN  IF ~have \/ ~isfile(cert)
           THEN /\ Abandon
                /\ Audit(found([parsed |-> FALSE, json |-> NoDoc]), NoRecord)
                /\ UNCHANGED <<ok, timestamp, identity>>
           ELSE \E cmd_file \in Envelopes(Cmds) :
                  LET r == verify_cmd(cmd_file, cert.content)
                  IN  /\ ok' = r.ok
                      /\ IF Rejected(r)
                         THEN /\ Audit(found(r), SaveCmd(FALSE, TRUE, 0))
                              /\ NextFeed
                              /\ UNCHANGED <<timestamp, identity>>
                         ELSE /\ timestamp' = r.json.timestamp
                              /\ Audit(found(r),
                                       SaveCmd(r.ok, FALSE, r.json.timestamp))
                              /\ IF Outdated(r.json.timestamp, timestamps[feed])
                                 THEN NextFeed /\ UNCHANGED identity
                                 ELSE /\ ResolveNodeId
                                      /\ pc' = "dispatch"
                                      /\ feed' = feed
                                      /\ commands' = r.json.commands
  /\ UNCHANGED <<timestamps, supervisor, fs, params>>

\* The same with every outcome of download(), the audit directory looked at.
FetchAudited(Cmds) == Poll(Cmds, DownloadOutcomes, TRUE)

\* The same where tmp_dir holds no copy of an earlier download and the
\* audit directory is not looked at.
FetchFeed(Cmds) == Poll(Cmds, {"fresh", "none"}, FALSE)

\* ------------------------------------------------------------ get_node_id
\* get_node_id(id_path) one step at a time, run by thread t: the main thread
\* ("poll": once before thr.start(), then in the loop) or the thread of
\* backup_log ("backup").  bpc = "unstarted" until thr.start().
Stepping(t, at) == resolving[t].pc = at

Goes(t, to) == resolving' = [resolving EXCEPT ![t].pc = to]

Returns(t, id) ==
  resolving' = [resolving EXCEPT ![t].pc = "done", ![t].result = id]

\* if read_node_id: return read_node_id
Enter(t) ==
  /\ Stepping(t, "idle")
  /\ IF t = "poll" THEN resolving[t].result = NoId \/ bpc # "unstarted"
                   ELSE bpc # "unstarted"
  /\ IF read_node_id # NoId THEN Returns(t, read_node_id) ELSE Goes(t, "read")
  /\ UNCHANGED <<loop, timestamps, supervisor, fs, errfile, disableupdates,
                 verifier, started, backup, identity, audit>>

\* os.path.exists, open, json.loads(...).get("id", None)
ReadIdFile(t) ==
  /\ Stepping(t, "read")
  /\ resolving' = [resolving EXCEPT
                     ![t].new_node_id = new_node_id(idfile),
                     ![t].pc = IF new_node_id(idfile) # NoId THEN "store"
                               ELSE "fallback"]
  /\ UNCHANGED <<loop, timestamps, supervisor, fs, errfile, disableupdates,
                 verifier, started, backup, identity, audit>>

\* read_node_id = new_node_id; return new_node_id
StoreNodeId(t) ==
  /\ Stepping(t, "store")
  /\ read_node_id' = resolving[t].new_node_id
  /\ resolved' = IF resolved = NoId THEN resolving[t].new_node_id ELSE resolved
  /\ Returns(t, resolving[t].new_node_id)
  /\ UNCHANGED <<loop, timestamps, supervisor, fs, errfile, disableupdates,
                 verifier, started, backup, audit, idfile, generated_uuid,
                 uuids, node_id>>

\* if not generated_uuid
Fallback(t) ==
  /\ Stepping(t, "fallback")
  /\ Goes(t, IF generated_uuid = NoId THEN "generate" ELSE "return")
  /\ UNCHANGED <<loop, timestamps, supervisor, fs, errfile, disableupdates,
                 verifier, started, backup, identity, audit>>

\* generated_uuid = str(uuid.uuid1())
Generate(t) ==
  /\ Stepping(t, "generate")
  /\ generated_uuid' = uuid1(uuids + 1)
  /\ uuids' = uuids + 1
  /\ Goes(t, "return")
  /\ UNCHANGED <<loop, timestamps, supervisor, fs, errfile, disableupdates,
                 verifier, started, backup, audit, idfile, read_node_id,
                 node_id, resolved>>

\* return generated_uuid
ReturnGenerated(t) ==
  /\ Stepping(t, "return")
  /\ Returns(t, generated_uuid)
  /\ UNCHANGED <<loop, timestamps, supervisor, fs, errfile, disableupdates,
                 verifier, started, backup, identity, audit>>

\* The caller has the id: node_id = get_node_id(...) in the main thread,
\* log_prefix = get_node_id(...) in backup_log.
Leave(t) ==
  /\ Stepping(t, "done")
  /\ Goes(t, "idle")
  /\ IF t = "poll"
     THEN /\ node_id' = resolving[t].result
          /\ UNCHANGED log_prefix
     ELSE /\ log_prefix' = resolving[t].result
          /\ UNCHANGED node_id
  /\ UNCHANGED <<loop, timestamps, supervisor, fs, errfile, disableupdates,
                 verifier, started, audit, idfile, read_node_id,
                 generated_uuid, uuids, resolved, bpc, log_index, log_size,
                 attempted, uploaded>>

\* thr.start(), after the first get_node_id of the main thread
ThreadStart ==
  /\ bpc = "unstarted"
  /\ Stepping("poll", "idle")
  /\ resolving["poll"].result # NoId
  /\ bpc' = "sleep"
  /\ UNCHANGED <<loop, timestamps, supervisor, fs, errfile, disableupdates,
                 verifier, started, resolving, identity, audit, log_prefix,
                 log_index, log_size, attempted, uploaded>>

\* ------------------------------------------------------------ dispatching
AppliesToUs_All(command) == TRUE

\* not (node_targets and node_id not in node_targets)
AppliesToUs(command) == ~(command.nodes # {} /\ node_id \notin command.nodes)

Dispatching(c) ==
  /\ pc = "dispatch"
  /\ commands # <<>>
  /\ AppliesToUs(Head(commands))
  /\ Head(commands).command = c

\* `continue` after timestamps[i] = timestamp, or the end of the loop body.
Continue == pc' = pc /\ feed' = feed /\ commands' = Tail(commands)

\* The command does not apply to us: timestamps[i] = timestamp; continue
DoSkip ==
  /\ pc = "dispatch"
  /\ commands # <<>>
  /\ ~AppliesToUs(Head(commands))
  /\ timestamps' = [timestamps EXCEPT ![feed] = timestamp]
  /\ Continue
  /\ UNCHANGED <<ok, timestamp, supervisor, fs, env>>

\* command_type == "start"
DoStart ==
  /\ Dispatching("start")
  /\ IF NeedsStart
     THEN \E spawn_ok \in BOOLEAN :
            IF spawn_ok /\ CanSpawn
            THEN Spawned(procs, WorkerArgs) /\ Continue
            ELSE Abandon /\ UNCHANGED supervisor
     ELSE Continue /\ UNCHANGED supervisor
  /\ UNCHANGED <<timestamps, ok, timestamp, fs, env>>

\* command_type == "stop": terminate_process up to p.wait()
DoStop ==
  /\ Dispatching("stop")
  /\ IF process = None
     THEN Continue /\ UNCHANGED procs
     ELSE /\ procs' = Terminated(process)
          /\ pc' = "wait"
          /\ UNCHANGED <<feed, commands>>
  /\ UNCHANGED <<timestamps, ok, timestamp, process, logfile, fs, env>>

\* p.wait() returns once the process has exited.
StopWait ==
  /\ pc = "wait"
  /\ Exited(process)
  /\ pc' = "dispatch"
  /\ feed' = feed
  /\ commands' = Tail(commands)
  /\ UNCHANGED <<timestamps, ok, timestamp, supervisor, fs, env>>

\* command_type == "delay": time.sleep(duration / 1000)
DoDelay ==
  /\ Dispatching("delay")
  /\ Continue
  /\ UNCHANGED <<timestamps, ok, timestamp, supervisor, fs, env>>

\* ------------------------------------------------------------------ update
\* timestamps[i] = timestamp, as assigned before each `continue` of an
\* update entry that is not carried out.
Consumed(ts) == [ts EXCEPT ![feed] = timestamp]

UpdatesDisabled_Never == FALSE

\* args["disableupdates"]
UpdatesDisabled == disableupdates

ValidInstallPath_Any(k) == TRUE

\* install_path in valid_paths.keys()
ValidInstallPath(k) == k \in DOMAIN valid_paths

\* valid_paths[install_path] raises KeyError for a key outside the registry.
KeyError(k) == k \notin DOMAIN valid_paths

HashMatches_Always(actual_hash, expected_hash) == TRUE

\* not (actual_hash != expected_hash)
HashMatches(actual_hash, expected_hash) == actual_hash = expected_hash

\* os.chmod(binary_path, stat.S_IEXEC)
Chmod(files) == [files EXCEPT ![binary_path].mode = S_IEXEC]

\* command_type == "update".  Every registry path lies in a directory that
\* exists, so os.makedirs(..., exist_ok=True) changes nothing.  The download
\* to <install path>.tmp either fails, leaving what was there, or writes
\* some bytes; open(tmp_path) raises when there is no such file.
\* os.replace succeeds or not as `Replaces` allows.
Update(Replaces) ==
  /\ Dispatching("update")
  /\ LET info == Head(commands).info
         install_path == valid_paths[info.install_path]
     IN  IF UpdatesDisabled \/ ~ValidInstallPath(info.install_path)
         THEN /\ timestamps' = Consumed(timestamps)
              /\ Continue
              /\ UNCHANGED fs
         ELSE IF KeyError(info.install_path)
         THEN Abandon /\ UNCHANGED <<timestamps, fs>>
         ELSE \E got \in Contents \cup {"nofile"} :
                LET tmp == IF got = "nofile" THEN tmpfiles[install_path]
                           ELSE File(got, DownloadMode)
                    left == [tmpfiles EXCEPT ![install_path] = tmp]
                IN  IF ~isfile(tmp)
                    THEN Abandon /\ UNCHANGED <<timestamps, fs>>
                    ELSE IF ~HashMatches(sha256_hexdigest(tmp.content),
                                         info.sha256sum)
                    THEN /\ timestamps' = Consumed(timestamps)
                         /\ tmpfiles' = left
                         /\ Continue
                         /\ UNCHANGED installed
                    ELSE \E replaced \in Replaces :
                           IF ~replaced
                           THEN /\ timestamps' = Consumed(timestamps)
                                /\ tmpfiles' = left
                                /\ Continue
                                /\ UNCHANGED installed
                           ELSE /\ tmpfiles' =
                                     [tmpfiles EXCEPT ![install_path] = NoFile]
                                /\ installed' =
                                     Chmod([installed EXCEPT ![install_path] = tmp])
                                /\ UNCHANGED timestamps
                                /\ IF install_path = "wrapper"
                                   THEN /\ pc' = "exited"
                                        /\ UNCHANGED <<feed, commands>>
                                   ELSE Continue
  /\ UNCHANGED <<ok, timestamp, supervisor, env>>

\* An update entry, os.replace failing or not.
DoUpdate == Update(BOOLEAN)

\* An update entry whose os.replace, if reached, succeeds: the directory of
\* the target is writable.
DoUpdateReplacing == Update({TRUE})

\* The end of the loop over the entries: timestamps[i] = timestamp.
FeedDone ==
  /\ pc = "dispatch"
  /\ commands = <<>>
  /\ timestamps' = [timestamps EXCEPT ![feed] = timestamp]
  /\ NextFeed
  /\ UNCHANGED <<ok, timestamp, supervisor, fs, env>>

\* -------------------------------------------------------------- backup_log
megabyte == 1048576
\* 100 * megabyte
LogLimit == 100 * megabyte

\* The sizes of the log file told apart.
LogSizes == {0, 1, LogLimit, LogLimit + 1}

ExceedsLimit_OrEqual(size) == size >= LogLimit

\* log_size > (100 * megabyte)
ExceedsLimit(size) == size > LogLimit

\* A tick of backup_log up to the return of upload(): the sleep,
\* get_node_id, and upload() of the log under "<prefix>-<index>-<name>".
\* upload() catches every exception: the object is put only if the file can
\* be opened and S3 accepts it.
BackupUpload ==
  /\ bpc = "sleep"
  /\ log_index < MaxRot
  /\ log_prefix' = get_node_id.id
  /\ Cached(get_node_id)
  /\ \E put \in BOOLEAN :
       /\ attempted' = [prefix |-> log_prefix', index |-> log_index,
                        put |-> put /\ logfile # Absent]
       /\ uploaded' = IF put /\ logfile # Absent
                      THEN [prefix |-> log_prefix', index |-> log_index,
                            size |-> logfile]
                      ELSE uploaded
  /\ bpc' = "getsize"
  /\ UNCHANGED <<loop, timestamps, supervisor, fs, errfile, disableupdates,
                 verifier, started, resolving, audit, node_id, log_index,
                 log_size>>

\* log_size = os.path.getsize(src_path) and the test of the size; getsize
\* raises when there is no file, which ends the tick.
BackupGetSize ==
  /\ bpc = "getsize"
  /\ IF logfile = Absent
     THEN bpc' = "sleep" /\ UNCHANGED log_size
     ELSE /\ log_size' = logfile
          /\ bpc' = IF ExceedsLimit(logfile) THEN "truncate" ELSE "sleep"
  /\ UNCHANGED <<loop, timestamps, supervisor, fs, errfile, disableupdates,
                 verifier, started, resolving, audit, identity, log_prefix,
                 log_index, attempted, uploaded>>

\* open(src_path, 'w').close(); log_index += 1
BackupTruncate ==
  /\ bpc = "truncate"
  /\ logfile' = 0
  /\ log_index' = log_index + 1
  /\ bpc' = "sleep"
  /\ UNCHANGED <<loop, timestamps, process, procs, fs, errfile,
                 disableupdates, verifier, started, resolving, audit,
                 identity, log_prefix, log_size, attempted, uploaded>>

\* ------------------------------------------------------------- environment
\* A live worker writes to its stderr, which start_binary opened on the log
\* file in append mode.
WorkerWrites ==
  /\ LiveWorkers # {}
  /\ logfile # Absent
  /\ \E size \in LogSizes : size > logfile /\ logfile' = size
  /\ UNCHANGED <<loop, timestamps, process, procs, fs, env>>

\* A worker exits, on its own or after SIGTERM.
WorkerExits ==
  /\ \E p \in LiveWorkers : procs' = [procs EXCEPT ![p].status = "exited"]
  /\ UNCHANGED <<loop, timestamps, process, logfile, fs, env>>

\* A worker that was sent SIGTERM exits.
SignalledExits ==
  /\ WorkerExits
  /\ \E p \in Pids : procs[p].status = "signalled" /\ procs'[p].status = "exited"

\* The external watchdog writes or removes the recovered-error file.
ErrFileChanges ==
  /\ errfile' = ~errfile
  /\ UNCHANGED <<loop, timestamps, supervisor, fs, disableupdates, verifier,
                 started, resolving, backup, identity, audit>>

\* The operator writes or removes the config file.
ConfigFileChanges ==
  /\ installed' = [installed EXCEPT ![config_file] =
                     IF isfile(@) THEN NoFile ELSE File("v0", InstalledMode)]
  /\ UNCHANGED <<loop, timestamps, supervisor, tmpfiles, env>>

\* The operator removes or restores the network management certificate.
CertFileChanges ==
  /\ installed' = [installed EXCEPT ![rsa_certificate_path] =
                     IF isfile(@) THEN NoFile ELSE File("v0", InstalledMode)]
  /\ UNCHANGED <<loop, timestamps, supervisor, tmpfiles, env>>

\* The node writes, rewrites or removes its identity file.
IdFileChanges ==
  /\ \E f \in IdFiles : f # idfile /\ idfile' = f
  /\ UNCHANGED <<loop, timestamps, supervisor, fs, params, audit,
                 read_node_id, generated_uuid, uuids, node_id, resolved>>

\* ----------------------------------------------------------- specification
\* The supervisor: batches of start, stop and delay entries, with the
\* recovered-error file and the config file coming and going.
Init ==
  /\ \E now \in 1..(MaxTs - 1) : InitWith(now, TRUE, {FALSE}, BOOLEAN)
  /\ VerifierIdle
  /\ Quiet

Next ==
  \/ RestartOnError
  \/ NoRestart
  \/ FetchFeed(SupervisorCmds)
  \/ DoStart
  \/ DoStop
  \/ StopWait
  \/ DoDelay
  \/ FeedDone
  \/ WorkerExits
  \/ ErrFileChanges
  \/ ConfigFileChanges

Spec == Init /\ [][Next]_vars

\* Updates: batches of update entries for the binary, for the wrapper and
\* for a path outside the registry, with updates enabled or disabled.
UpdateKeys == {"binary", "wrapper", "../etc/passwd"}
UpdateBatchCmds == {c \in UpdateCmds : c.info.install_path \in UpdateKeys}

InitUpdate ==
  /\ \E now \in 1..(MaxTs - 1) : InitWith(now, TRUE, BOOLEAN, {FALSE})
  /\ VerifierIdle
  /\ Quiet

NextUpdate ==
  \/ NoRestart
  \/ FetchFeed(UpdateBatchCmds)
  \/ DoUpdate
  \/ FeedDone

SpecUpdate == InitUpdate /\ [][NextUpdate]_vars

\* Starting and stopping: batches of start and stop entries, the config
\* file in place, the recovered-error file coming and going.
StartStopCmds == {StartCmd, StopCmd}

InitStart ==
  /\ \E now \in 1..(MaxTs - 1) : InitWith(now, TRUE, {FALSE}, BOOLEAN)
  /\ VerifierIdle
  /\ Quiet

NextStart ==
  \/ RestartOnError
  \/ NoRestart
  \/ FetchFeed(StartStopCmds)
  \/ DoStart
  \/ DoStop
  \/ StopWait
  \/ FeedDone
  \/ WorkerExits
  \/ ErrFileChanges

SpecStart == InitStart /\ [][NextStart]_vars

\* Node targeting: start entries and updates of the binary, for every node
\* or for the nodes named; the identity file absent or naming node-a at
\* start-up, and appearing later.
NodeFiles == {"absent", "node-a"}
NodesCmds ==
  {StartCmd, Targeted(StartCmd, {"node-a"})} \cup
  {Targeted(UpdateCmd("binary", sha256_hexdigest("v1")), ns) :
     ns \in {{"node-a"}, {"node-b"}}}

InitNodes ==
  /\ \E now \in 1..(MaxTs - 1) : InitWith(now, TRUE, {FALSE}, {FALSE})
  /\ VerifierIdle
  /\ IdentityResolved(NodeFiles)
  /\ AuditEmpty
  /\ BackupIdle({Absent})

IdFileAppears ==
  /\ idfile = "absent"
  /\ IdFileChanges
  /\ idfile' \in NodeFiles

NextNodes ==
  \/ NoRestart
  \/ FetchFeed(NodesCmds)
  \/ DoSkip
  \/ DoStart
  \/ DoUpdate
  \/ FeedDone
  \/ IdFileAppears

SpecNodes == InitNodes /\ [][NextNodes]_vars

\* The identity resolver: the module-level code up to thr.start() and, from
\* then on, the two threads calling get_node_id at any time, while the node
\* writes, rewrites or removes its identity file.
InitNodeId ==
  /\ InitWith(1, TRUE, {FALSE}, {FALSE})
  /\ VerifierIdle
  /\ AuditEmpty
  /\ idfile \in IdFiles
  /\ read_node_id = NoId
  /\ generated_uuid = NoId
  /\ uuids = 0
  /\ node_id = NoId
  /\ resolved = NoId
  /\ resolving = [t \in Threads |-> NoCall]
  /\ logfile = Absent
  /\ bpc = "unstarted"
  /\ log_prefix = NoId
  /\ log_index = 0
  /\ log_size = 0
  /\ attempted = [prefix |-> NoId, index |-> 0, put |-> FALSE]
  /\ uploaded = [prefix |-> NoId, index |-> 0, size |-> 0]

NextNodeId ==
  \/ \E t \in Threads : Enter(t)
  \/ \E t \in Threads : ReadIdFile(t)
  \/ \E t \in Threads : StoreNodeId(t)
  \/ \E t \in Threads : Fallback(t)
  \/ \E t \in Threads : Generate(t)
  \/ \E t \in Threads : ReturnGenerated(t)
  \/ \E t \in Threads : Leave(t)
  \/ ThreadStart
  \/ IdFileChanges

SpecNodeId == InitNodeId /\ [][NextNodeId]_vars

\* The hash check: updates of the binary whose sha256sum is the digest of
\* the artifact in lower case, the same in upper case, or another digest;
\* the transfer delivers either artifact or fails; os.replace succeeds.
ExpectedHashes ==
  {sha256_hexdigest("v1"), upper_hex(sha256_hexdigest("v1")),
   sha256_hexdigest("v2")}
HashCmds == {UpdateCmd("binary", h) : h \in ExpectedHashes}

InitHash ==
  /\ \E now \in 1..(MaxTs - 1) : InitWith(now, TRUE, {FALSE}, {FALSE})
  /\ VerifierIdle
  /\ Quiet

NextHash ==
  \/ NoRestart
  \/ FetchFeed(HashCmds)
  \/ DoUpdateReplacing
  \/ FeedDone

SpecHash == InitHash /\ [][NextHash]_vars

\* The log backup: the thread of backup_log next to a poll loop that is
\* served start entries, the worker writing to the log, which may be there
\* from an earlier run.
InitBackup ==
  /\ InitWith(1, TRUE, {FALSE}, {FALSE})
  /\ VerifierIdle
  /\ IdentityResolved({"absent"})
  /\ AuditEmpty
  /\ BackupIdle(LogSizes \cup {Absent})

NextBackup ==
  \/ NoRestart
  \/ FetchFeed({StartCmd})
  \/ DoStart
  \/ FeedDone
  \/ WorkerWrites
  \/ BackupUpload
  \/ BackupGetSize
  \/ BackupTruncate

SpecBackup == InitBackup /\ [][NextBackup]_vars

\* The audit trail: batches of start entries, downloads that succeed, fail
\* over a stale copy or fail with nothing at local_path, and the certificate
\* coming and going; what each poll found and saved is kept track of.
InitAudit ==
  /\ \E now \in 1..(MaxTs - 1) : InitWith(now, TRUE, {FALSE}, {FALSE})
  /\ VerifierIdle
  /\ Quiet

NextAudit ==
  \/ NoRestart
  \/ FetchAudited({StartCmd})
  \/ DoStart
  \/ FeedDone
  \/ CertFileChanges

SpecAudit == InitAudit /\ [][NextAudit]_vars

\* The loop going on: start, stop and updates of the binary, the
\* recovered-error file present or not, every spawn and every transfer free
\* to fail.  The main thread is always scheduled (time.sleep returns and
\* every call it makes returns or raises), and a worker runs until it is
\* sent SIGTERM and then exits.
LiveCmds == {StartCmd, StopCmd, UpdateCmd("binary", sha256_hexdigest("v1"))}

InitLive ==
  /\ \E now \in 1..(MaxTs - 1) : InitWith(now, TRUE, {FALSE}, BOOLEAN)
  /\ VerifierIdle
  /\ Quiet

LoopLive ==
  \/ RestartOnError
  \/ NoRestart
  \/ FetchFeed(LiveCmds)
  \/ DoStart
  \/ DoStop
  \/ StopWait
  \/ DoUpdate
  \/ FeedDone

NextLive ==
  \/ LoopLive
  \/ SignalledExits

SpecLive ==
  /\ InitLive
  /\ [][NextLive]_vars
  /\ WF_vars(LoopLive)
  /\ WF_vars(SignalledExits)

\* Whole batches: start, stop, delay and updates of the binary in one
\* vocabulary, the recovered-error file absent.
BatchCmds == SupervisorCmds \cup {c \in UpdateCmds : c.info.install_path = "binary"}

InitBatch ==
  /\ \E now \in 1..(MaxTs - 1) : InitWith(now, TRUE, {FALSE}, {FALSE})
  /\ VerifierIdle
  /\ Quiet

NextBatch ==
  \/ NoRestart
  \/ FetchFeed(BatchCmds)
  \/ DoStart
  \/ DoStop
  \/ StopWait
  \/ DoDelay
  \/ DoUpdate
  \/ FeedDone
  \/ WorkerExits

SpecBatch == InitBatch /\ [][NextBatch]_vars

\* Batches older than the wrapper: the same batches, the wrapper started at
\* any time up to the latest batch timestamp.
InitStale ==
  /\ \E now \in 1..MaxTs : InitWith(now, TRUE, {FALSE}, {FALSE})
  /\ VerifierIdle
  /\ Quiet

SpecStale == InitStale /\ [][NextBatch]_vars

\* verify_cmd on its own.  A signer signs the exact bytes of a line 1 with
\* one of the keys (or line 2 carries no signature at all); the envelope
\* then has one byte of line 1 altered, added or removed, any number of
\* times, the signature staying as it was; and verify_cmd is applied to what
\* arrives, against the start-up certificate.
Bytes == {WS, Junk, Json(Doc(1, <<StartCmd>>))}
SignedLines == SeqsUpTo(Bytes, MaxLine)

\* The lines one byte away from l: a byte altered, removed, or added.
Edits(l) ==
  {[l EXCEPT ![n] = b] : n \in 1..Len(l), b \in Bytes} \cup
  {SubSeq(l, 1, n - 1) \o SubSeq(l, n + 1, Len(l)) : n \in 1..Len(l)} \cup
  {SubSeq(l, 1, n) \o <<b>> \o SubSeq(l, n + 1, Len(l)) :
     n \in 0..Len(l), b \in Bytes}

InitVerify ==
  /\ InitWith(1, TRUE, {FALSE}, {FALSE})
  /\ signed \in SignedLines
  /\ envelope \in {Envelope(signed, Sign(k, signed)) : k \in Keys} \cup
                  {Envelope(signed, NoSignature)}
  /\ verdict = NoVerdict
  /\ Quiet

\* One byte of line 1 changes on the way; the signature does not.
Tamper ==
  /\ ~verdict.done
  /\ \E l \in Edits(envelope.line1) :
       /\ Len(l) <= MaxLine
       /\ envelope' = [envelope EXCEPT !.line1 = l]
  /\ UNCHANGED <<loop, timestamps, supervisor, fs, errfile, disableupdates,
                 signed, verdict, started, resolving, backup, identity, audit>>

\* signed_commands, ok = verify_cmd(cmd_file, rsa_certificate_path)
VerifyEnvelope ==
  /\ ~verdict.done
  /\ LET r == verify_cmd(envelope, installed[rsa_certificate_path].content)
     IN  verdict' = [done |-> TRUE, parsed |-> r.parsed, json |-> r.json,
                     ok |-> r.ok]
  /\ UNCHANGED <<loop, timestamps, supervisor, fs, errfile, disableupdates,
                 signed, envelope, started, resolving, backup, identity,
                 audit>>

NextVerify ==
  \/ Tamper
  \/ VerifyEnvelope

SpecVerify == InitVerify /\ [][NextVerify]_vars

\* ------------------------------------------------------------------ claims
\* A step of the poll loop itself (not of a worker, the watchdog or the
\* operator).
LoopStep == <<pc, feed, commands>>' # <<pc, feed, commands>>

\* The entry being dispatched is an update for install key k, with updates
\* enabled.
UpdateStep(k) ==
  /\ Dispatching("update")
  /\ LoopStep
  /\ ~disableupdates
  /\ Head(commands).info.install_path = k

\* C1.  A feed whose verification returned ok = False (bad signature or
\* undecodable payload) is left without any entry being dispatched and
\* without any change to the timestamps, the worker or the files; entries
\* are only ever dispatched with ok = True.
C1_FailedStep ==
  (pc = "feed" /\ LoopStep /\ ~ok') =>
    /\ pc' # "dispatch"
    /\ timestamps' = timestamps
    /\ supervisor' = supervisor
    /\ fs' = fs
C1_DispatchedOnlyIfOk == pc' \in {"dispatch", "wait"} => ok'
C1_InvalidBatchInert == [][C1_FailedStep /\ C1_DispatchedOnlyIfOk]_vars

\* A verification has failed after a batch had been applied on the version
\* feed.
C1_Witness == ~ok /\ timestamps[0] > 0

\* C2.  Replay guard: a verified batch whose timestamp does not exceed the
\* feed's stored timestamp is left without any entry dispatched and without
\* any change to the timestamps, the worker or the files; the loop over the
\* entries is entered only with a strictly greater timestamp.
C2_ReplayedStep ==
  (pc = "feed" /\ LoopStep /\ ok' /\ timestamp' <= timestamps[feed]) =>
    /\ pc' # "dispatch"
    /\ timestamps' = timestamps
    /\ supervisor' = supervisor
    /\ fs' = fs
C2_DispatchedOnlyIfNewer ==
  (pc = "feed" /\ pc' = "dispatch") => timestamp' > timestamps[feed]
C2_ReplayGuard == [][C2_ReplayedStep /\ C2_DispatchedOnlyIfNewer]_vars

\* The verified batch decoded last is older than what both feeds have
\* stored: whichever feed served it, the guard turned it away.
C2_Witness ==
  /\ ok
  /\ pc \in {"feed", "sleep"}
  /\ timestamp < timestamps[0]
  /\ timestamp < timestamps[1]

\* C3.  Batch consumed: whenever the loop leaves a feed whose entries it had
\* started to dispatch, that feed's stored timestamp is the batch's.
C3_BatchConsumed ==
  [][(pc \in {"dispatch", "wait"} /\ pc' \in {"feed", "sleep"}) =>
       timestamps'[feed] = timestamp]_vars

\* C4.  verify_cmd answers for the exact bytes of line 1: an envelope whose
\* line 1 is not the signed one is invalid, and a decodable line 1 that
\* arrives as signed with the trusted key is valid.
C4_ExactBytes ==
  verdict.done =>
    /\ envelope.line1 # signed => ~verdict.ok
    /\ (/\ envelope.line1 = signed
        /\ envelope.signature.key = "K0"
        /\ json_parses(signed)) => verdict.ok

\* C5.  An update entry whose install key is outside the registry leaves
\* every file as it was (no download, no .tmp file), advances the feed's
\* timestamp and lets the loop go on with the next entry.
C5_UnknownKeyStep ==
  \A k \in InstallKeys \ DOMAIN valid_paths :
    UpdateStep(k) =>
      /\ fs' = fs
      /\ timestamps' = [timestamps EXCEPT ![feed] = timestamp]
      /\ pc' = "dispatch"
      /\ commands' = Tail(commands)
C5_UnknownKeyRejected == [][C5_UnknownKeyStep]_vars

\* With updates enabled an entry has been consumed without any download:
\* no .tmp file exists and every installed file is the start-up one.
C5_Witness ==
  /\ pc = "dispatch"
  /\ ~disableupdates
  /\ timestamps[feed] = timestamp
  /\ \A p \in Paths : ~isfile(tmpfiles[p]) /\ installed[p].content = "v0"

\* C6.  Hash mismatch: when the bytes at <target>.tmp after the download
\* step do not hash to the expected value, no installed file changes in
\* content or mode; an update changes an installed file only by moving
\* bytes of the expected hash over the target.
C6_MismatchStep ==
  \A k \in DOMAIN valid_paths :
    UpdateStep(k) =>
      LET target == valid_paths[k]
          expected_hash == Head(commands).info.sha256sum
      IN  /\ (/\ isfile(tmpfiles'[target])
              /\ sha256_hexdigest(tmpfiles'[target].content) # expected_hash)
               => installed' = installed
          /\ installed' # installed =>
               /\ ~isfile(tmpfiles'[target])
               /\ sha256_hexdigest(installed'[target].content) = expected_hash
C6_HashMismatchSafe == [][C6_MismatchStep]_vars

\* Bytes of the wrong hash are at a .tmp path, their entry consumed, and
\* the target is still the start-up file.
C6_Witness ==
  \E p \in Paths :
    /\ pc = "dispatch"
    /\ timestamps[feed] = timestamp
    /\ tmpfiles[p].content = "v2"
    /\ installed[p] = File("v0", InstalledMode)

\* C7.  Self-update: once an update entry for the wrapper has put new bytes
\* at the wrapper's path, the process has exited.
C7_SelfUpdateExits ==
  [][(/\ UpdateStep("wrapper")
      /\ installed'[valid_paths["wrapper"]] # installed[valid_paths["wrapper"]])
       => pc' = "exited"]_vars

\* C8.  At most one spawned worker is alive.
C8_AtMostOneWorker == Cardinality(LiveWorkers) <= 1

\* C9.  A start entry dispatched while the handle's process has not exited
\* leaves the handle and every worker as they are; a start entry spawns only
\* when there is no handle or the handle's process has exited.
C9_StartStep ==
  (Dispatching("start") /\ LoopStep) =>
    /\ (process # None /\ ~Exited(process)) => supervisor' = supervisor
    /\ Len(procs') > Len(procs) => (process = None \/ Exited(process))
C9_StartIdempotent == [][C9_StartStep]_vars

\* A start entry is being dispatched while the worker is alive.
C9_Witness == Dispatching("start") /\ process # None /\ ~Exited(process)

\* C10.  When p.wait() of a stop returns no worker is alive; a stop with no
\* live handle changes neither the handle nor any worker; a start that
\* spawns passes --config <path> exactly when the config file exists.
C10_StopStep ==
  /\ (pc = "wait" /\ pc' = "dispatch") => LiveWorkers' = {}
  /\ (Dispatching("stop") /\ LoopStep /\ (process = None \/ Exited(process)))
       => supervisor' = supervisor
  /\ (Dispatching("start") /\ LoopStep /\ Len(procs') > Len(procs)) =>
       procs'[process'].args =
         IF isfile(installed[config_file]) THEN <<"--config", config_file>>
         ELSE <<>>
C10_StopThenStart == [][C10_StopStep]_vars

\* C11.  Node targeting: an entry whose nodes list is non-empty and does
\* not contain node_id changes neither the worker nor any file, advances the
\* feed's timestamp to the batch's and leaves the rest of the batch to be
\* dispatched; a start entry without nodes, with no worker handle, spawns
\* (or fails in start_binary) whatever node_id is.
C11_SkipStep ==
  (/\ pc = "dispatch"
   /\ commands # <<>>
   /\ LoopStep
   /\ Head(commands).nodes # {}
   /\ node_id \notin Head(commands).nodes) =>
    /\ supervisor' = supervisor
    /\ fs' = fs
    /\ timestamps' = [timestamps EXCEPT ![feed] = timestamp]
    /\ pc' = "dispatch"
    /\ commands' = Tail(commands)
C11_UntargetedStep ==
  (/\ pc = "dispatch"
   /\ commands # <<>>
   /\ LoopStep
   /\ Head(commands) = StartCmd
   /\ process = None) =>
    \/ Len(procs') = Len(procs) + 1
    \/ pc' # "dispatch"
C11_NodeTargeting == [][C11_SkipStep /\ C11_UntargetedStep]_vars

\* An entry for other nodes has been skipped (the feed's timestamp is the
\* batch's, no worker and no file has changed) and the next entry of the
\* batch, which does apply, is about to be dispatched.
C11_Witness ==
  /\ pc = "dispatch"
  /\ timestamps[feed] = timestamp
  /\ procs = <<>>
  /\ \A p \in Paths : ~isfile(tmpfiles[p]) /\ installed[p].content = "v0"
  /\ commands # <<>>
  /\ Head(commands).nodes # {}
  /\ node_id \in Head(commands).nodes

\* C12.  Node id stability under the two threads: uuid.uuid1() is called at
\* most once and a call whose file read failed returns that one id; once a
\* call has returned an id read from the file, every call begun after it
\* returns that id at once, without reading the file.
C12_BegunAfterResolved ==
  \A t \in Threads :
    (Stepping(t, "idle") /\ resolving'[t].pc # "idle" /\ resolved # NoId) =>
      /\ resolving'[t].pc = "done"
      /\ resolving'[t].result = resolved
C12_FailedReadReturnsGenerated ==
  \A t \in Threads :
    (Stepping(t, "return") /\ resolving'[t].pc = "done") =>
      resolving'[t].result = uuid1(1)
C12_StableNodeId ==
  /\ [][C12_BegunAfterResolved /\ C12_FailedReadReturnsGenerated]_vars
  /\ [](uuids <= 1)

\* C13.  The entries of a batch are dispatched only if the batch's timestamp
\* is not earlier than the time the wrapper started, on either feed.
C13_NoStaleBatch ==
  [][(pc = "feed" /\ pc' = "dispatch") => timestamp' >= started]_vars

\* C14.  With updates disabled an update entry leaves every installed file
\* and every .tmp file as it was (no download, no replace, no chmod),
\* advances the feed's timestamp to the batch's and lets the loop go on with
\* the next entry; no file ever differs from its start-up state.
C14_DisabledStep ==
  (Dispatching("update") /\ LoopStep /\ disableupdates) =>
    /\ fs' = fs
    /\ timestamps' = [timestamps EXCEPT ![feed] = timestamp]
    /\ pc' = "dispatch"
    /\ commands' = Tail(commands)
C14_FilesUntouched ==
  disableupdates =>
    \A p \in Paths : ~isfile(tmpfiles[p]) /\ installed[p] = File("v0", InstalledMode)
C14_UpdatesDisabled == [][C14_DisabledStep /\ C14_FilesUntouched']_vars

\* With updates disabled the first update entry of a batch has been consumed
\* and the second is about to be dispatched.
C14_Witness ==
  /\ disableupdates
  /\ Dispatching("update")
  /\ timestamps[feed] = timestamp

\* C15.  Log rotation.  When backup_log looks at the size of the log it has
\* called upload() under the key made of the node id and log_index; it
\* truncates the log to 0 bytes and adds one to log_index exactly when the
\* size it observed exceeds 100 MiB, and otherwise changes neither; log_index
\* never decreases.
C15_UploadFirst ==
  bpc = "getsize" =>
    (attempted.prefix = log_prefix /\ attempted.index = log_index)
C15_SizeCheckStep ==
  (bpc = "getsize" /\ bpc' # bpc) =>
    /\ logfile' = logfile
    /\ log_index' = log_index
    /\ bpc' = "truncate" <=> (logfile # Absent /\ log_size' > 100 * 1048576)
    /\ bpc' = "truncate" => log_size' = logfile
C15_TruncateStep ==
  (bpc = "truncate" /\ bpc' # bpc) =>
    /\ logfile' = 0
    /\ log_index' = log_index + 1
    /\ bpc' = "sleep"
C15_UploadStep ==
  (bpc = "sleep" /\ bpc' # bpc) =>
    /\ logfile' = logfile
    /\ log_index' = log_index
    /\ bpc' = "getsize"
C15_LogRotation ==
  [][/\ C15_UploadFirst'
     /\ C15_SizeCheckStep
     /\ C15_TruncateStep
     /\ C15_UploadStep
     /\ log_index' >= log_index]_vars

\* A log of more than 100 MiB has been uploaded under index 0 and then
\* truncated: it is empty and log_index is 1.
C15_Witness ==
  /\ bpc = "sleep"
  /\ log_index = 1
  /\ logfile = 0
  /\ uploaded.index = 0
  /\ uploaded.size > LogLimit

\* C16.  Entries are independent: whatever happens to an entry that has
\* entries after it (carried out, rejected, or failed), the loop stays in the
\* batch and the entry after it is the next to be dispatched.
C16_NextEntryStep ==
  (pc = "dispatch" /\ Len(commands) > 1 /\ LoopStep) =>
    \/ pc' = "dispatch" /\ commands' = Tail(commands)
    \/ pc' = "wait" /\ commands' = commands
C16_EntriesIndependent == [][C16_NextEntryStep]_vars

\* C17.  A feed whose download() failed is abandoned for the tick: verify_cmd
\* is not called, save_cmd is not called, no entry is dispatched and neither
\* the timestamps, the worker nor any file changes.
C17_FailedDownloadStep ==
  (pc = "feed" /\ LoopStep /\ ~fetched'.download) =>
    /\ ~fetched'.handed
    /\ ~saved'.called
    /\ pc' # "dispatch"
    /\ timestamps' = timestamps
    /\ supervisor' = supervisor
    /\ fs' = fs
C17_FailedDownloadAbandons == [][C17_FailedDownloadStep]_vars

\* C19.  Every envelope handed to verify_cmd is saved in the same poll: the
\* copy is tagged invalid exactly when verify_cmd did not return ok, it is
\* named after the timestamp the payload declares whenever line 1 decoded,
\* and after the current time only when it did not.
C19_SavedStep ==
  (pc = "feed" /\ LoopStep /\ fetched'.handed) =>
    /\ saved'.called
    /\ saved'.valid = ok'
    /\ fetched'.parsed => (~saved'.clock /\ saved'.cmd_time = fetched'.declared)
    /\ ~fetched'.parsed => saved'.clock
C19_EveryEnvelopeSaved == [][C19_SavedStep]_vars

\* C20.  An update that installs a file leaves that file, at the registry
\* path of its install key, with the owner-execute bit set, and changes the
\* mode of no other installed file.
C20_InstallStep ==
  \A k \in DOMAIN valid_paths :
    (UpdateStep(k) /\ installed' # installed) =>
      /\ "ux" \in installed'[valid_paths[k]].mode
      /\ \A p \in Paths \ {valid_paths[k]} :
           installed'[p].mode = installed[p].mode
C20_TargetExecutable == [][C20_InstallStep]_vars

\* C18.  The loop goes on for ever.  It exits only in an update step that
\* put new bytes at the wrapper's path; whenever it leaves the version feed,
\* for whatever reason, it goes on to the command feed in the same tick; it
\* is at its sleep again and again, and polls the feeds again and again.
C18_ExitStep ==
  pc' = "exited" =>
    \/ pc = "exited"
    \/ /\ UpdateStep("wrapper")
       /\ installed'[valid_paths["wrapper"]] # installed[valid_paths["wrapper"]]
C18_VersionFeedStep ==
  (/\ pc \in {"feed", "dispatch", "wait"}
   /\ feed = 0
   /\ LoopStep
   /\ pc' \notin {"dispatch", "wait"}) =>
    /\ pc' = "feed"
    /\ feed' = 1
C18_LoopForever ==
  /\ [][C18_ExitStep /\ C18_VersionFeedStep]_vars
  /\ []<>(pc = "sleep" \/ pc = "exited")
  /\ []<>(pc = "feed" \/ pc = "exited")

\* The version feed has been left by an exception (a spawn or a transfer
\* failed while its entries were being dispatched: its timestamp is not the
\* batch's) and the command feed is being polled.
C18_Witness ==
  /\ pc = "feed"
  /\ feed = 1
  /\ ok
  /\ timestamp > timestamps[0]

\* A tick of the poll loop begins: the step that leaves the sleep.
C21_Tick == pc = "sleep" /\ pc' = "feed"

\* The worker the handle referred to is not alive once the step is over.
C21_Stopped == process # None => procs'[process].status = "exited"

\* A worker the step spawned is the handle's, runs, and was given the
\* config file exactly if the file exists.
C21_Started ==
  Len(procs') > Len(procs) =>
    /\ process' = Len(procs')
    /\ procs'[process'].status = "running"
    /\ procs'[process'].args = WorkerArgs

\* C21.  Crash recovery: a tick that begins with the recovered-error file
\* present leaves the worker of the handle stopped and, whatever the handle
\* was, makes the worker it spawns the handle's, with the current config;
\* no step of the wrapper creates or removes the recovered-error file, so
\* every such tick does so again; a tick that begins without the file
\* leaves the handle, the workers and the log file alone.
C21_RestartStep ==
  /\ (C21_Tick /\ errfile) =>
       /\ C21_Stopped
       /\ C21_Started
  /\ (C21_Tick /\ ~errfile) => supervisor' = supervisor
  /\ errfile' # errfile => UNCHANGED <<loop, timestamps, supervisor, fs>>
C21_CrashRecovery == [][C21_RestartStep]_vars

\* C22.  The hash check is blind to the case of the hex letters: bytes at
\* the .tmp path whose digest equals the entry's sha256sum up to letter case
\* are moved over the target, so they are not at the .tmp path once the
\* entry is done; bytes whose digest differs from it in a digit never
\* reach the target.
C22_HashStep ==
  UpdateStep("binary") =>
    LET expected_hash == lower_hex(Head(commands).info.sha256sum)
        Matches(f) == lower_hex(sha256_hexdigest(f.content)) = expected_hash
    IN  /\ isfile(tmpfiles'[binary_path]) => ~Matches(tmpfiles'[binary_path])
        /\ installed' # installed => Matches(installed'[binary_path])
C22_HashCaseInsensitive == [][C22_HashStep]_vars

\* C23.  Log durability: backup_log clears the log only when the upload()
\* of the same tick put the object, and the object put holds all of the log
\* that is cleared, whatever the worker wrote in between.
C23_ClearStep ==
  (bpc = "truncate" /\ bpc' = "sleep") =>
    /\ attempted.put
    /\ uploaded.prefix = log_prefix
    /\ uploaded.index = log_index
    /\ uploaded.size >= logfile
C23_NothingLost == [][C23_ClearStep]_vars

============================================================================
